---------------------------- MODULE Spec2Model ----------------------------
(***************************************************************************)
(* Model of backend/main.py: the SQLite ledger (transactions and           *)
(* budget_goals tables), the summary engine and the budget performance     *)
(* engine of the finance tracker.                                          *)
(*                                                                         *)
(* Amounts are Python floats / SQLite REALs.  A float is modelled as a     *)
(* binary floating-point number of MantBits significant bits whose         *)
(* smallest step is 2^-FracBits: the integer n stands for n / Scale.       *)
(* Every arithmetic operation rounds its exact result to the nearest       *)
(* representable value, ties to even, as IEEE-754 does (with 53 bits).     *)
(***************************************************************************)
EXTENDS Integers, Sequences, FiniteSets, TLC

VARIABLES transactions,   \* rows of table transactions
          tx_seq,         \* AUTOINCREMENT counter of table transactions
          budget_goals,   \* rows of table budget_goals
          goal_seq,       \* AUTOINCREMENT counter of table budget_goals
          now,            \* the system clock, in seconds
          resp,           \* what the last operation returned
          T,              \* argument of calculate_financial_summary
          summary         \* its result

vars == <<transactions, tx_seq, budget_goals, goal_seq, now, resp, T, summary>>

(***************************************************************************)
(* Bounds                                                                  *)
(***************************************************************************)
MantBits == 5      \* significant bits of a float (53 in CPython)
FracBits == 4      \* the smallest float step is 2^-FracBits
MaxLen == 3        \* longest argument list of calculate_financial_summary
DefaultLimit == 2  \* default limit of get_transactions (100 in the source)
MaxTx == 3         \* transactions ever inserted
MaxGoals == 3      \* budget goals ever written
MaxGoalTx == 1     \* transactions ever inserted beside the budget goals
MaxBudgetTx == 2   \* transactions ever inserted beside the budget performance
MaxBudgetGoals == 2 \* budget goals ever written beside the budget performance
MaxServedTx == 4   \* transactions ever inserted beside the served summary
MaxClock == 1      \* clock steps

(***************************************************************************)
(* Floating point                                                          *)
(***************************************************************************)
RECURSIVE Pow2(_)
Pow2(n) == IF n = 0 THEN 1 ELSE 2 * Pow2(n - 1)

Scale == Pow2(FracBits)

Abs(x) == IF x < 0 THEN -x ELSE x

\* the integer nearest to x / d, ties to even (x >= 0, d > 0)
RoundHalfEven(x, d) ==
    LET f == x \div d
        r == x % d
    IN  IF 2 * r < d THEN f
        ELSE IF 2 * r > d THEN f + 1
        ELSE IF f % 2 = 0 THEN f ELSE f + 1

\* the spacing of the floats around magnitude m
RECURSIVE Quantum(_, _)
Quantum(m, q) == IF m < q * Pow2(MantBits) THEN q ELSE Quantum(m, 2 * q)

\* the float nearest to num / den (den > 0)
RoundRat(num, den) ==
    LET a == Abs(num)
        q == Quantum(a \div den, 1)
        r == q * RoundHalfEven(a, den * q)
    IN  IF num < 0 THEN -r ELSE r

FAdd(a, b) == RoundRat(a + b, 1)
FSub(a, b) == RoundRat(a - b, 1)
FMul(a, b) == RoundRat(a * b, Scale)
FDiv(a, b) == IF b < 0 THEN RoundRat(-(a * Scale), -b) ELSE RoundRat(a * Scale, b)

\* float(k) of a Python int k
FromInt(k) == RoundRat(k * Scale, 1)

\* sum(xs) of the builtin: left to right, starting from the int 0, each
\* addition rounded (CPython up to 3.11; later versions compensate the
\* rounding of sum, not that of the + in expenses_by_category)
RECURSIVE sum(_)
sum(xs) == IF xs = <<>> THEN 0
           ELSE FAdd(sum(SubSeq(xs, 1, Len(xs) - 1)), xs[Len(xs)])

(***************************************************************************)
(* Pydantic models                                                         *)
(***************************************************************************)
TransactionType == {"income", "expense"}

(***************************************************************************)
(* Summary engine                                                          *)
(***************************************************************************)
RECURSIVE Amounts(_, _)
\* [t['amount'] for t in ts if t['type'] == kind]
Amounts(ts, kind) ==
    IF ts = <<>> THEN <<>>
    ELSE LET t == Head(ts)
         IN  (IF t.type = kind THEN <<t.amount>> ELSE <<>>) \o Amounts(Tail(ts), kind)

\* d.get(key, 0) of a dict kept as a sequence of <<key, value>> in insertion order
DictGet(d, key) ==
    IF \E i \in 1..Len(d) : d[i][1] = key
    THEN d[CHOOSE i \in 1..Len(d) : d[i][1] = key][2]
    ELSE 0

\* d[key] = value
DictSet(d, key, value) ==
    IF \E i \in 1..Len(d) : d[i][1] = key
    THEN [i \in 1..Len(d) |-> IF d[i][1] = key THEN <<key, value>> ELSE d[i]]
    ELSE Append(d, <<key, value>>)

\* d.values() and d.keys()
DictValues(d) == [i \in 1..Len(d) |-> d[i][2]]
DictKeys(d) == {d[i][1] : i \in 1..Len(d)}

RECURSIVE ExpensesByCategory(_, _)
ExpensesByCategory(ts, d) ==
    IF ts = <<>> THEN d
    ELSE LET t == Head(ts)
         IN  IF t.type = "expense"
             THEN ExpensesByCategory(Tail(ts),
                      DictSet(d, t.category, FAdd(DictGet(d, t.category), t.amount)))
             ELSE ExpensesByCategory(Tail(ts), d)

\* a / b * 100; a zero divisor raises ZeroDivisionError
Percent(a, b) ==
    IF b = 0 THEN [error |-> TRUE, value |-> 0]
    ELSE [error |-> FALSE, value |-> FMul(FDiv(a, b), FromInt(100))]

\* the zero guard dropped: the division is always attempted
SavingsRateUnguarded(net_balance, total_income) ==
    Percent(net_balance, total_income)

SavingsRate(net_balance, total_income) ==
    IF total_income > 0 THEN Percent(net_balance, total_income)
    ELSE [error |-> FALSE, value |-> 0]

calculate_financial_summary(ts) ==
    LET total_income   == sum(Amounts(ts, "income"))
        total_expenses == sum(Amounts(ts, "expense"))
        net_balance    == FSub(total_income, total_expenses)
        savings_rate   == SavingsRate(net_balance, total_income)
    IN  IF savings_rate.error THEN [status |-> "error"]
        ELSE [status               |-> "ok",
              total_income         |-> total_income,
              total_expenses       |-> total_expenses,
              net_balance          |-> net_balance,
              expenses_by_category |-> ExpensesByCategory(ts, <<>>),
              savings_rate         |-> savings_rate.value]

(***************************************************************************)
(* Ledger store.  A table is the set of its rows; a row's id is its rowid. *)
(* The description column is left out: no operation reads it.              *)
(***************************************************************************)
DefaultUser == "default_user"

\* dates are <<year, month, day>>; ISO text compares as the tuple does
DateLess(a, b) ==
    \/ a[1] < b[1]
    \/ a[1] = b[1] /\ a[2] < b[2]
    \/ a[1] = b[1] /\ a[2] = b[2] /\ a[3] < b[3]

\* ORDER BY date DESC, created_at DESC: r comes strictly before s
OrderedBefore(r, s) ==
    \/ DateLess(s.date, r.date)
    \/ r.date = s.date /\ r.created_at > s.created_at

\* every order ORDER BY allows for the rows S: rows that tie on both sort
\* keys may come in any order
RECURSIVE OrderBy(_)
OrderBy(S) ==
    IF S = {} THEN {<<>>}
    ELSE UNION {{<<r>> \o rest : rest \in OrderBy(S \ {r})} :
                   r \in {x \in S : \A y \in S : ~OrderedBefore(y, x)}}

\* the LIMIT clause left out
Unlimited(rows, n) == rows

\* LIMIT n: a negative n is no limit
Limit(rows, n) ==
    IF n < 0 \/ n >= Len(rows) THEN rows ELSE SubSeq(rows, 1, n)

\* SELECT * FROM transactions WHERE user_id = ? ORDER BY ... LIMIT ?, over
\* the table txs: the results it may return
SelectTransactions(txs, user_id, limit) ==
    {Limit(rows, limit) : rows \in OrderBy({r \in txs : r.user_id = user_id})}

\* the results get_transactions(user_id, limit) may return
get_transactions(user_id, limit) == SelectTransactions(transactions, user_id, limit)

\* the rows S in rowid order
RECURSIVE ById(_)
ById(S) ==
    IF S = {} THEN <<>>
    ELSE LET r == CHOOSE x \in S : \A y \in S : x.id <= y.id
         IN  <<r>> \o ById(S \ {r})

\* SELECT * FROM budget_goals WHERE ..., over the table goals;
\* "if month and year": 0 stands for a parameter left out
SelectBudgetGoals(goals, user_id, month, year) ==
    IF month # 0 /\ year # 0
    THEN ById({g \in goals : g.user_id = user_id /\ g.month = month /\ g.year = year})
    ELSE ById({g \in goals : g.user_id = user_id})

get_budget_goals(user_id, month, year) ==
    SelectBudgetGoals(budget_goals, user_id, month, year)

Ids(rows) == {r.id : r \in rows}

\* a rowid that is not AUTOINCREMENT: one more than the largest id stored
NewTransactionReusedId(user_id, t) ==
    [id |-> IF transactions = {} THEN 1
            ELSE 1 + (CHOOSE i \in Ids(transactions) : \A j \in Ids(transactions) : j <= i),
     user_id |-> user_id, type |-> t.type,
     category |-> t.category, amount |-> t.amount, date |-> t.date,
     created_at |-> now]

\* the row INSERT INTO transactions adds
NewTransaction(user_id, t) ==
    [id |-> tx_seq + 1, user_id |-> user_id, type |-> t.type,
     category |-> t.category, amount |-> t.amount, date |-> t.date,
     created_at |-> now]

\* what the Transaction model accepts
ValidTransaction(t) == t.type \in TransactionType

\* what the BudgetGoal model accepts: any category, amount, month and year
ValidBudgetGoal(g) == TRUE

SameKey(g, user_id, b) ==
    /\ g.user_id = user_id
    /\ g.category = b.category
    /\ g.month = b.month
    /\ g.year = b.year

\* a plain INSERT into a table without the UNIQUE constraint
InsertOnly(user_id, b) ==
    budget_goals
        \cup {[id |-> goal_seq + 1, user_id |-> user_id, category |-> b.category,
               amount |-> b.amount, month |-> b.month, year |-> b.year]}

\* INSERT OR REPLACE under UNIQUE(user_id, category, month, year)
InsertOrReplace(user_id, b) ==
    {g \in budget_goals : ~SameKey(g, user_id, b)}
        \cup {[id |-> goal_seq + 1, user_id |-> user_id, category |-> b.category,
               amount |-> b.amount, month |-> b.month, year |-> b.year]}

(***************************************************************************)
(* The system clock.  now counts clock steps: operations within one step   *)
(* read the same CURRENT_TIMESTAMP second, and a step takes the clock into *)
(* the next month, starting from January 2024.                             *)
(***************************************************************************)
ClockMonth(t) == 1 + (t % 12)
ClockYear(t) == 2024 + (t \div 12)

\* the decimal digits of n, at least width of them
RECURSIVE Digits(_, _)
Digits(n, width) ==
    IF n < 10 /\ width <= 1 THEN <<n>>
    ELSE Append(Digits(n \div 10, width - 1), n % 10)

\* strftime('%m', date) and strftime('%Y', date)
StrftimeMonth(date) == Digits(date[2], 2)
StrftimeYear(date) == Digits(date[1], 4)

(***************************************************************************)
(* Budget performance engine                                               *)
(***************************************************************************)
\* {goal['category']: goal['amount'] for goal in budget_goals}
RECURSIVE BudgetDict(_, _)
BudgetDict(goals, d) ==
    IF goals = <<>> THEN d
    ELSE BudgetDict(Tail(goals), DictSet(d, Head(goals).category, Head(goals).amount))

\* SELECT category, SUM(amount) ... GROUP BY category, over the rows in
\* rowid order
RECURSIVE GroupSum(_, _)
GroupSum(rows, d) ==
    IF rows = <<>> THEN d
    ELSE LET r == Head(rows)
         IN  GroupSum(Tail(rows),
                      DictSet(d, r.category, FAdd(DictGet(d, r.category), r.amount)))

\* the actual-spending query with a filter on the categories that have a goal
SpendingRowsOfGoals(txs, month, year) ==
    {r \in txs :
        /\ r.type = "expense"
        /\ StrftimeMonth(r.date) = Digits(month, 2)
        /\ StrftimeYear(r.date) = Digits(year, 1)
        /\ \E g \in budget_goals :
               /\ g.user_id = DefaultUser /\ g.month = month /\ g.year = year
               /\ g.category = r.category}

\* the rows of the table txs the actual-spending query selects
SpendingRows(txs, month, year) ==
    {r \in txs :
        /\ r.type = "expense"
        /\ StrftimeMonth(r.date) = Digits(month, 2)
        /\ StrftimeYear(r.date) = Digits(year, 1)}

ActualSpending(txs, month, year) == GroupSum(ById(SpendingRows(txs, month, year)), <<>>)

PercentageUsed(actual, budget) ==
    IF budget > 0 THEN Percent(actual, budget)
    ELSE [error |-> FALSE, value |-> 0]

\* over budget from the budget on, not only above it
StatusFromBudgetOn(spent, budget) == IF spent >= budget THEN "over_budget" ELSE "within_budget"

Status(spent, budget) == IF spent > budget THEN "over_budget" ELSE "within_budget"

PerformanceEntry(category, budget, actual) ==
    [category        |-> category,
     budget          |-> budget,
     actual          |-> actual,
     difference      |-> FSub(budget, actual),
     percentage_used |-> PercentageUsed(actual, budget).value,
     status          |-> Status(actual, budget)]

OverallStatus(total_spent, total_budget) ==
    IF total_spent <= total_budget THEN "within_budget" ELSE "over_budget"

\* the body of get_budget_performance at clock t, over the tables txs and goals
BudgetPerformance(txs, goals, t) ==
    LET current_month   == ClockMonth(t)
        current_year    == ClockYear(t)
        budget_dict     == BudgetDict(SelectBudgetGoals(goals, DefaultUser, current_month,
                                                        current_year), <<>>)
        actual_spending == ActualSpending(txs, current_month, current_year)
        performance     == [i \in 1..Len(budget_dict) |->
                               PerformanceEntry(budget_dict[i][1], budget_dict[i][2],
                                   DictGet(actual_spending, budget_dict[i][1]))]
        failed          == \E i \in 1..Len(budget_dict) :
                               PercentageUsed(DictGet(actual_spending, budget_dict[i][1]),
                                              budget_dict[i][2]).error
    IN  IF failed THEN [status |-> 500]
        ELSE [status             |-> 200,
              budget_performance |-> performance,
              total_budget       |-> sum(DictValues(budget_dict)),
              total_spent        |-> sum(DictValues(actual_spending)),
              overall_status     |-> OverallStatus(sum(DictValues(actual_spending)),
                                                   sum(DictValues(budget_dict)))]

(***************************************************************************)
(* Operations                                                              *)
(***************************************************************************)
NoResponse == [op |-> "none"]
NoSummary == [status |-> "none"]

InitStore ==
    /\ transactions = {}
    /\ tx_seq = 0
    /\ budget_goals = {}
    /\ goal_seq = 0
    /\ now = 0
    /\ resp = NoResponse

\* POST /transactions/ -> create_transaction(transaction, user_id)
create_transaction(user_id, t) ==
    /\ IF ValidTransaction(t)
       THEN /\ transactions' = transactions \cup {NewTransaction(user_id, t)}
            /\ tx_seq' = tx_seq + 1
            /\ resp' = [op |-> "create_transaction", status |-> 200, id |-> tx_seq + 1]
       ELSE /\ UNCHANGED <<transactions, tx_seq>>
            /\ resp' = [op |-> "create_transaction", status |-> 422, id |-> 0]
    /\ UNCHANGED <<budget_goals, goal_seq, now, T, summary>>

\* GET /transactions/ -> get_transactions(user_id, limit)
list_transactions(user_id, limit) ==
    /\ UNCHANGED <<transactions, tx_seq, budget_goals, goal_seq, now, T, summary>>
    /\ \E rows \in get_transactions(user_id, limit) :
           resp' = [op |-> "get_transactions", status |-> 200, user_id |-> user_id,
                    limit |-> limit, rows |-> rows]

\* DELETE /transactions/{transaction_id}
delete_transaction(transaction_id) ==
    /\ IF \E r \in transactions : r.id = transaction_id
       THEN /\ transactions' = {r \in transactions : r.id # transaction_id}
            /\ resp' = [op |-> "delete_transaction", status |-> 200, id |-> transaction_id]
       ELSE /\ UNCHANGED transactions
            /\ resp' = [op |-> "delete_transaction", status |-> 404, id |-> transaction_id]
    /\ UNCHANGED <<tx_seq, budget_goals, goal_seq, now, T, summary>>

\* POST /budget-goals/ -> set_budget_goal(budget_goal, user_id)
set_budget_goal(user_id, b) ==
    /\ IF ValidBudgetGoal(b)
       THEN /\ budget_goals' = InsertOrReplace(user_id, b)
            /\ goal_seq' = goal_seq + 1
            /\ resp' = [op |-> "set_budget_goal", status |-> 200, user_id |-> user_id,
                        goal |-> b]
       ELSE /\ UNCHANGED <<budget_goals, goal_seq>>
            /\ resp' = [op |-> "set_budget_goal", status |-> 422, user_id |-> user_id,
                        goal |-> b]
    /\ UNCHANGED <<transactions, tx_seq, now, T, summary>>

\* GET /budget-goals/ -> get_budget_goals(user_id, month, year)
list_budget_goals(user_id, month, year) ==
    /\ UNCHANGED <<transactions, tx_seq, budget_goals, goal_seq, now, T, summary>>
    /\ resp' = [op |-> "get_budget_goals", status |-> 200, user_id |-> user_id,
                rows |-> get_budget_goals(user_id, month, year)]

\* the summaries GET /summary/ may serve over the table txs:
\* get_transactions() with its defaults, then calculate_financial_summary
Summaries(txs) ==
    {calculate_financial_summary(rows) :
        rows \in SelectTransactions(txs, DefaultUser, DefaultLimit)}

ServedSummaries == Summaries(transactions)

\* GET /summary/
get_financial_summary ==
    /\ UNCHANGED <<transactions, tx_seq, budget_goals, goal_seq, now, T, summary>>
    /\ \E s \in ServedSummaries :
           resp' = IF s.status = "ok"
                   THEN [op |-> "get_financial_summary", status |-> 200, summary |-> s]
                   ELSE [op |-> "get_financial_summary", status |-> 500]

\* GET /analytics/budget-performance/
get_budget_performance ==
    /\ UNCHANGED <<transactions, tx_seq, budget_goals, goal_seq, now, T, summary>>
    /\ resp' = [op |-> "get_budget_performance", at |-> now,
                result |-> BudgetPerformance(transactions, budget_goals, now)]

\* the clock advances
Tick ==
    /\ now' = now + 1
    /\ UNCHANGED <<transactions, tx_seq, budget_goals, goal_seq, resp, T, summary>>

(***************************************************************************)
(* The ledger of transactions: two owners insert, list and delete.         *)
(***************************************************************************)
Owners == {DefaultUser, "alice"}
LedgerDates == {<<2024, 1, 5>>, <<2024, 1, 20>>}
LedgerInputs == [type : {"expense"}, category : {"food"}, amount : {Scale},
                 date : LedgerDates]
Limits == {1, 2}

InitLedger ==
    /\ InitStore
    /\ T = <<>>
    /\ summary = NoSummary

NextLedger ==
    \/ \E u \in Owners, t \in LedgerInputs : tx_seq < MaxTx /\ create_transaction(u, t)
    \/ \E u \in Owners, n \in Limits : list_transactions(u, n)
    \/ \E id \in 1..MaxTx : delete_transaction(id)
    \/ now < MaxClock /\ Tick

SpecLedger == InitLedger /\ [][NextLedger]_vars

\* C2: deleting an id that is not stored yields 404 and changes no stored
\* transaction; deleting a stored id succeeds, removes that row and no other,
\* and no later list returns the id: a list returns stored rows only, and an
\* id that was assigned and is gone is never stored again.
C2_DeleteStep ==
    /\ \A id \in 1..MaxTx :
          delete_transaction(id) =>
              IF id \in Ids(transactions)
              THEN /\ resp'.status = 200
                   /\ id \notin Ids(transactions')
                   /\ transactions' = {r \in transactions : r.id # id}
                   /\ \A u \in Owners, n \in Limits :
                          \A rows \in get_transactions(u, n)' :
                              \A k \in 1..Len(rows) : rows[k].id # id
              ELSE /\ resp'.status = 404
                   /\ transactions' = transactions
    /\ \A u \in Owners, n \in Limits :
          list_transactions(u, n) =>
              \A k \in 1..Len(resp'.rows) : resp'.rows[k] \in transactions
    /\ \A id \in 1..tx_seq :
          id \notin Ids(transactions) => id \notin Ids(transactions')

C2_Delete == [][C2_DeleteStep]_vars

\* a stored transaction was deleted, others are still stored, and a new one
\* was inserted after the deletion
C2_Witness ==
    /\ \E id \in 1..tx_seq : id \notin Ids(transactions) /\ \E r \in transactions : r.id > id
    /\ \E r, q \in transactions : r.id # q.id

\* C4: get_transactions returns the owner's rows by date descending, ties by
\* created_at descending, cut to limit; and a list that follows the insert
\* of a row whose date is the owner's latest has that row first.
C4_ListStep ==
    \A u \in Owners, n \in Limits :
        list_transactions(u, n) =>
            LET rows  == resp'.rows
                owned == {r \in transactions : r.user_id = u}
            IN  /\ Len(rows) = IF Cardinality(owned) < n THEN Cardinality(owned) ELSE n
                /\ \A k \in 1..Len(rows) : rows[k] \in owned
                /\ \A j, k \in 1..Len(rows) : j < k => ~OrderedBefore(rows[k], rows[j])
                /\ \A k \in 1..Len(rows) : \A r \in owned :
                       OrderedBefore(r, rows[k]) => \E j \in 1..k : rows[j] = r
                /\ (/\ resp.op = "create_transaction"
                    /\ resp.status = 200
                    /\ \E r \in owned :
                          /\ r.id = resp.id
                          /\ \A x \in owned : ~DateLess(r.date, x.date))
                   => rows[1].id = resp.id

C4_InsertedListedFirst == [][C4_ListStep]_vars

(***************************************************************************)
(* Validation: well-formed and malformed transactions and budget goals.    *)
(***************************************************************************)
ValidationTx == [type : {"expense", "income", "transfer"}, category : {"food"},
                 amount : {-Scale, Scale}, date : {<<2024, 1, 5>>}]
ValidationGoals == [category : {"food"}, amount : {-Scale, Scale}, month : {1, 13},
                    year : {2024}]

NextValidation ==
    \/ \E t \in ValidationTx : tx_seq < MaxTx /\ create_transaction(DefaultUser, t)
    \/ \E b \in ValidationGoals : goal_seq < MaxGoals /\ set_budget_goal(DefaultUser, b)
    \/ \E id \in 1..MaxTx : delete_transaction(id)
    \/ list_budget_goals(DefaultUser, 0, 0)

SpecValidation == InitLedger /\ [][NextValidation]_vars

\* C3: malformed input is rejected before the store changes, so every stored
\* transaction has a kind of income or expense and an amount >= 0, and every
\* stored budget goal has an amount >= 0 and a month in 1..12.
C3_StoredValid ==
    /\ \A r \in transactions : r.type \in TransactionType /\ r.amount >= 0
    /\ \A g \in budget_goals : g.amount >= 0 /\ g.month \in 1..12

\* the part of C3 the Transaction model enforces: the kind
C3_StoredKinds == \A r \in transactions : r.type \in TransactionType

(***************************************************************************)
(* Budget goals: two owners upsert goals while transactions come and go.   *)
(***************************************************************************)
GoalInputs ==
    ({DefaultUser} \X
        ([category : {"food"}, amount : {Scale, 2 * Scale}, month : {1}, year : {2024}]
         \cup [category : {"rent"}, amount : {Scale}, month : {1}, year : {2024}]
         \cup [category : {"food"}, amount : {Scale}, month : {2}, year : {2024}]
         \cup [category : {"food"}, amount : {Scale}, month : {1}, year : {2025}]))
    \cup ({"alice"} \X [category : {"food"}, amount : {Scale}, month : {1}, year : {2024}])
GoalTx == [type : {"expense"}, category : {"food"}, amount : {Scale},
           date : {<<2024, 1, 5>>}]
GoalPeriods == {<<0, 0>>, <<1, 2024>>}

NextGoals ==
    \/ \E x \in GoalInputs : goal_seq < MaxGoals /\ set_budget_goal(x[1], x[2])
    \/ \E u \in Owners, p \in GoalPeriods : list_budget_goals(u, p[1], p[2])
    \/ \E t \in GoalTx : tx_seq < MaxGoalTx /\ create_transaction(DefaultUser, t)
    \/ \E id \in 1..MaxGoalTx : delete_transaction(id)

SpecGoals == InitLedger /\ [][NextGoals]_vars

GoalKey(g) == <<g.user_id, g.category, g.month, g.year>>

\* C1: budget_goals holds at most one goal per (owner, category, month,
\* year); an upsert leaves exactly one row under its key, with the amount
\* just written, and the rows of every other key as they were; inserting and
\* deleting transactions changes no goal.
C1_UpsertStep ==
    /\ \A g, h \in budget_goals' : GoalKey(g) = GoalKey(h) => g = h
    /\ \A x \in GoalInputs :
          set_budget_goal(x[1], x[2]) =>
              /\ Cardinality({g \in budget_goals' : SameKey(g, x[1], x[2])}) = 1
              /\ \A g \in budget_goals' : SameKey(g, x[1], x[2]) => g.amount = x[2].amount
              /\ {g \in budget_goals' : ~SameKey(g, x[1], x[2])}
                     = {g \in budget_goals : ~SameKey(g, x[1], x[2])}
    /\ (~ \E x \in GoalInputs : set_budget_goal(x[1], x[2]))
          => budget_goals' = budget_goals

C1_OneGoalPerKey == [][C1_UpsertStep]_vars

\* a key was upserted a second time, with another amount, while an older
\* goal is stored under another key
C1_Witness ==
    /\ resp.op = "set_budget_goal"
    /\ resp.goal.amount = 2 * Scale
    /\ Cardinality(budget_goals) < goal_seq
    /\ \E g, h \in budget_goals :
          /\ SameKey(g, resp.user_id, resp.goal)
          /\ g.id = goal_seq
          /\ g.amount = resp.goal.amount
          /\ ~SameKey(h, resp.user_id, resp.goal)
          /\ h.id = 1

(***************************************************************************)
(* Budget performance: goals and transactions of two owners, and the       *)
(* performance report of the current month, January 2024: the operations   *)
(* of a run fall within one clock step.                                    *)
(***************************************************************************)
BudgetTx ==
    ({DefaultUser} \X
        ([type : {"expense"}, category : {"food", "rent"}, amount : {Scale},
          date : {<<2024, 1, 5>>}]
         \cup [type : {"income"}, category : {"food"}, amount : {Scale},
               date : {<<2024, 1, 5>>}]
         \cup [type : {"expense"}, category : {"food"}, amount : {Scale},
               date : {<<2024, 2, 5>>, <<2023, 1, 5>>}]))
    \cup ({"alice"} \X [type : {"expense"}, category : {"food"}, amount : {Scale},
                        date : {<<2024, 1, 5>>}])

BudgetGoalInputs ==
    ({DefaultUser} \X
        ([category : {"food"}, amount : {0, Scale}, month : {1}, year : {2024}]
         \cup [category : {"rent"}, amount : {Scale}, month : {1}, year : {2024}]
         \cup [category : {"food"}, amount : {Scale}, month : {2}, year : {2024}]))
    \cup ({"alice"} \X [category : {"rent"}, amount : {Scale}, month : {1}, year : {2024}])

NextBudget ==
    \/ \E x \in BudgetTx : tx_seq < MaxBudgetTx /\ create_transaction(x[1], x[2])
    \/ \E x \in BudgetGoalInputs : goal_seq < MaxBudgetGoals /\ set_budget_goal(x[1], x[2])
    \/ get_budget_performance

SpecBudget == InitLedger /\ [][NextBudget]_vars

\* the goals of the default user for the current period, and the expenses
\* of a category dated in it
PeriodGoals == {g \in budget_goals : /\ g.user_id = DefaultUser
                                     /\ g.month = ClockMonth(now)
                                     /\ g.year = ClockYear(now)}
PeriodExpenses(category) ==
    {r \in transactions : /\ r.type = "expense"
                          /\ r.category = category
                          /\ r.date[1] = ClockYear(now)
                          /\ r.date[2] = ClockMonth(now)}
AmountsOf(rows) == [i \in 1..Len(rows) |-> rows[i].amount]
Spent(category) == sum(AmountsOf(ById(PeriodExpenses(category))))

\* C7: the report has exactly one entry per category with a goal in the
\* period and none for other categories; an entry's budget is the goal's
\* amount, its actual the sum of the category's expenses dated in the period,
\* its difference budget - actual, its status over_budget exactly when
\* actual > budget, and its percentage_used 0 when the budget is 0.
C7_PerformanceStep ==
    get_budget_performance =>
        LET result  == resp'.result
            entries == result.budget_performance
        IN  /\ result.status = 200
            /\ {entries[i].category : i \in 1..Len(entries)}
                   = {g.category : g \in PeriodGoals}
            /\ Len(entries) = Cardinality({g.category : g \in PeriodGoals})
            /\ \A i \in 1..Len(entries) :
                  LET e == entries[i]
                  IN  /\ \E g \in PeriodGoals :
                             g.category = e.category /\ g.amount = e.budget
                      /\ e.actual = Spent(e.category)
                      /\ e.difference = FSub(e.budget, e.actual)
                      /\ e.status = "over_budget" <=> e.actual > e.budget
                      /\ e.status \in {"over_budget", "within_budget"}
                      /\ e.budget = 0 => e.percentage_used = 0

C7_PerformanceEntries == [][C7_PerformanceStep]_vars

\* the report shows a goal of 0 with spending on it, and a goal that is exceeded
C7_Witness ==
    /\ resp.op = "get_budget_performance"
    /\ resp.result.status = 200
    /\ \E i \in 1..Len(resp.result.budget_performance) :
          LET e == resp.result.budget_performance[i]
          IN  e.budget = 0 /\ e.actual > 0 /\ e.percentage_used = 0
                 /\ e.status = "over_budget"

\* the categories with an expense dated in the period
RECURSIVE SumOver(_)
SumOver(categories) ==
    IF categories = {} THEN 0
    ELSE LET latest == CHOOSE c \in categories :
                 \A d \in categories \ {c} :
                     \E r \in PeriodExpenses(d) : \A q \in PeriodExpenses(c) : r.id < q.id
         IN  FAdd(SumOver(categories \ {latest}), Spent(latest))
SpentCategories == {r.category : r \in {q \in transactions : PeriodExpenses(q.category) # {}}}

\* C9: total_budget is the sum of the period's goal amounts, total_spent the
\* sum over all categories, with or without a goal, of the period's expenses,
\* and overall_status is over_budget exactly when total_spent > total_budget.
C9_TotalsStep ==
    get_budget_performance =>
        LET result == resp'.result
        IN  /\ result.status = 200
            /\ result.total_budget = sum(AmountsOf(ById(PeriodGoals)))
            /\ result.total_spent = SumOver(SpentCategories)
            /\ result.overall_status = "over_budget"
                   <=> result.total_spent > result.total_budget
            /\ result.overall_status \in {"over_budget", "within_budget"}
            /\ (PeriodGoals = {} /\ SpentCategories = {})
                   => result.overall_status = "within_budget"

C9_OverallStatus == [][C9_TotalsStep]_vars

\* the report is over budget overall while each of its entries is within budget
C9_Witness ==
    /\ resp.op = "get_budget_performance"
    /\ resp.result.status = 200
    /\ resp.result.overall_status = "over_budget"
    /\ resp.result.budget_performance # <<>>
    /\ \A i \in 1..Len(resp.result.budget_performance) :
          resp.result.budget_performance[i].status = "within_budget"

\* C8: what an operation returns for an owner is what it returns when the
\* tables hold that owner's rows only: the rows of other owners change
\* nothing, and the spending the report shows is the default user's own.
OwnedBy(rows, user_id) == {r \in rows : r.user_id = user_id}

C8_OwnerScoped ==
    /\ \A u \in Owners :
          /\ \A n \in Limits :
                get_transactions(u, n)
                    = SelectTransactions(OwnedBy(transactions, u), u, n)
          /\ \A p \in {<<0, 0>>, <<ClockMonth(now), ClockYear(now)>>} :
                get_budget_goals(u, p[1], p[2])
                    = SelectBudgetGoals(OwnedBy(budget_goals, u), u, p[1], p[2])
    /\ ServedSummaries = Summaries(OwnedBy(transactions, DefaultUser))
    /\ BudgetPerformance(transactions, budget_goals, now)
           = BudgetPerformance(OwnedBy(transactions, DefaultUser),
                               OwnedBy(budget_goals, DefaultUser), now)

\* the parts of C8 about the lists and the summary
C8_ListsOwnerScoped ==
    /\ \A u \in Owners :
          /\ \A n \in Limits :
                get_transactions(u, n)
                    = SelectTransactions(OwnedBy(transactions, u), u, n)
          /\ \A p \in {<<0, 0>>, <<ClockMonth(now), ClockYear(now)>>} :
                get_budget_goals(u, p[1], p[2])
                    = SelectBudgetGoals(OwnedBy(budget_goals, u), u, p[1], p[2])
    /\ ServedSummaries = Summaries(OwnedBy(transactions, DefaultUser))

(***************************************************************************)
(* The served summary: the default user inserts more transactions than     *)
(* the default limit.                                                      *)
(***************************************************************************)
ServedTx ==
    [type : {"expense"}, category : {"food"}, amount : {Scale},
     date : {<<2024, 1, 5>>, <<2024, 2, 1>>}]
    \cup [type : {"income"}, category : {"food"}, amount : {2 * Scale},
          date : {<<2024, 1, 20>>}]

NextServed ==
    \/ \E t \in ServedTx : tx_seq < MaxServedTx /\ create_transaction(DefaultUser, t)
    \/ get_financial_summary
    \/ now < MaxClock /\ Tick

SpecServed == InitLedger /\ [][NextServed]_vars

\* C10: the served summary is the summary of a list get_transactions returns
\* for the default user and the default limit; once the user has more rows
\* than the limit, inserting a row dated earlier than every row of that list
\* leaves the served summary as it was.
C10_ServedStep ==
    /\ get_financial_summary =>
          /\ resp'.status = 200
          /\ \E rows \in OrderBy(OwnedBy(transactions, DefaultUser)) :
                resp'.summary = calculate_financial_summary(
                    SubSeq(rows, 1, IF Len(rows) < DefaultLimit THEN Len(rows)
                                    ELSE DefaultLimit))
    /\ \A t \in ServedTx :
          (/\ create_transaction(DefaultUser, t)
           /\ Cardinality(OwnedBy(transactions, DefaultUser)) > DefaultLimit
           /\ \A rows \in get_transactions(DefaultUser, DefaultLimit) :
                  \A k \in 1..Len(rows) : DateLess(t.date, rows[k].date))
          => Summaries(transactions') = Summaries(transactions)

C10_SummaryOfFirstRows == [][C10_ServedStep]_vars

\* beyond the limit, a row dated before all the listed rows was inserted
C10_Witness ==
    /\ resp.op = "create_transaction"
    /\ resp.status = 200
    /\ Cardinality(OwnedBy(transactions, DefaultUser)) > DefaultLimit + 1
    /\ \E r \in transactions :
          /\ r.id = resp.id
          /\ \A rows \in get_transactions(DefaultUser, DefaultLimit) :
                 \A k \in 1..Len(rows) : DateLess(r.date, rows[k].date)

(***************************************************************************)
(* The summary engine on its own: the argument is any list of at most      *)
(* MaxLen transaction dicts.                                               *)
(***************************************************************************)
SummaryCategories == {"food", "rent"}
SummaryAmounts == {-Scale, 0, 1, Scale, Scale + 1}

TxDict == [type : TransactionType, category : SummaryCategories, amount : SummaryAmounts]

RECURSIVE SeqsUpTo(_, _)
SeqsUpTo(S, n) ==
    IF n = 0 THEN {<<>>}
    ELSE LET shorter == SeqsUpTo(S, n - 1)
         IN  shorter \cup {Append(s, x) : s \in {z \in shorter : Len(z) = n - 1}, x \in S}

InitSummary ==
    /\ InitStore
    /\ T \in SeqsUpTo(TxDict, MaxLen)
    /\ summary = NoSummary

Calculate ==
    /\ summary = NoSummary
    /\ summary' = calculate_financial_summary(T)
    /\ UNCHANGED <<transactions, tx_seq, budget_goals, goal_seq, now, resp, T>>

NextSummary == Calculate

SpecSummary == InitSummary /\ [][NextSummary]_vars


(***************************************************************************)
(* Claims about the summary engine                                         *)
(***************************************************************************)
ExpenseCategories(ts) == {ts[i].category : i \in {j \in 1..Len(ts) : ts[j].type = "expense"}}

\* C5: for every transaction sequence T the summary has total_income = the
\* sum of the income amounts, total_expenses = the sum of the expense
\* amounts, net_balance = total_income - total_expenses, and
\* expenses_by_category has exactly the categories with an expense in T as
\* its keys, each once, and its values sum to total_expenses.  Stated for
\* the lists whose amounts are all non-negative, as the data model has them.
C5_SummaryTotals ==
    (summary # NoSummary /\ \A i \in 1..Len(T) : T[i].amount >= 0) =>
        /\ summary.status = "ok"
        /\ summary.total_income = sum(Amounts(T, "income"))
        /\ summary.total_expenses = sum(Amounts(T, "expense"))
        /\ summary.net_balance = FSub(summary.total_income, summary.total_expenses)
        /\ DictKeys(summary.expenses_by_category) = ExpenseCategories(T)
        /\ Len(summary.expenses_by_category) = Cardinality(ExpenseCategories(T))
        /\ sum(DictValues(summary.expenses_by_category)) = summary.total_expenses

\* the parts of C5 other than the sum of the values
C5_KeysAndTotals ==
    summary # NoSummary =>
        /\ summary.status = "ok"
        /\ summary.net_balance = FSub(summary.total_income, summary.total_expenses)
        /\ DictKeys(summary.expenses_by_category) = ExpenseCategories(T)
        /\ Len(summary.expenses_by_category) = Cardinality(ExpenseCategories(T))
        /\ \A c \in ExpenseCategories(T) :
              DictGet(summary.expenses_by_category, c) =
                  sum(Amounts(SelectSeq(T, LAMBDA t : t.category = c), "expense"))

\* C6: whenever the income of T totals 0 (the empty list and lists of
\* expenses only included) the summary is computed without error and its
\* savings_rate is 0; for the empty list every number is 0 and
\* expenses_by_category is empty.
C6_ZeroIncome ==
    summary # NoSummary =>
        /\ sum(Amounts(T, "income")) = 0 =>
              summary.status = "ok" /\ summary.savings_rate = 0
        /\ T = <<>> =>
              /\ summary.status = "ok"
              /\ summary.total_income = 0
              /\ summary.total_expenses = 0
              /\ summary.net_balance = 0
              /\ summary.savings_rate = 0
              /\ summary.expenses_by_category = <<>>

\* a list of expenses only, with a positive total, has been summarised
C6_Witness ==
    /\ summary # NoSummary
    /\ summary.status = "ok"
    /\ T # <<>>
    /\ \A i \in 1..Len(T) : T[i].type = "expense"
    /\ summary.total_expenses > 0
    /\ summary.total_income = 0
    /\ summary.savings_rate = 0

=============================================================================
